---- MODULE Spec2Model ----
(***************************************************************************)
(* rfhook: parseFormData (src/src/utils/parseFormData.ts) and the useForm  *)
(* hook (src/src/useForm.hook.ts).                                         *)
(*                                                                         *)
(* Paths and keys are strings, taken apart character by character, so that *)
(* split('.'), ARRAY_KEY_REGEX and parseInt are modelled by what they do.  *)
(* JavaScript objects are modelled with their prototype link: a property   *)
(* read walks the prototype chain, `__proto__` is the accessor of          *)
(* Object.prototype, and Object.prototype / Array.prototype are globals    *)
(* that outlive a call.                                                    *)
(***************************************************************************)
EXTENDS Integers, Sequences, FiniteSets, TLC

VARIABLES
  formData,   \* the FormData handed to the next parseFormData call: <<path, value>> pairs
  globals,    \* [op, ap]: Object.prototype and Array.prototype of the realm
  pc,         \* "idle" | "returned" | "threw": outcome of the last parseFormData call
  lastArg,    \* the entries of the last parseFormData call
  before,     \* the globals as they were when the last call started
  result,     \* the object the last call returned (Undefined when none)
  trace,      \* what the last call did with each path segment it handled
  calls,      \* number of parseFormData calls made so far
  used,       \* number of entries appended so far, over all calls
  ref,        \* useForm: ref.current is the mounted form (TRUE) or null (FALSE)
  fields,     \* the form's controls in tree order: [name, value, def]
  initialData,\* the initialData option, as initialDataRef keeps it
  submits,    \* number of calls of the submit callback
  submitted,  \* the argument of the last call of the submit callback
  prevented,  \* number of event.preventDefault() calls
  events,     \* number of submit events handled by onSubmit
  live,       \* number of them handled while the ref was attached
  atEvent,    \* the realm's globals when the last such event came (Undefined when none)
  got,        \* what the last getFormData() returned
  raised,     \* the last hook operation ended by an exception
  op,         \* the last hook operation called, with its arguments (Undefined when none)
  was         \* ref.current and the controls as that operation found them

vars == <<formData, globals, pc, lastArg, before, result, trace, calls, used,
          ref, fields, initialData, submits, submitted, prevented, events,
          live, atEvent, got, raised, op, was>>

parseVars == <<formData, globals, pc, lastArg, before, result, trace, calls, used>>
hookVars == <<ref, fields, initialData, submits, submitted, prevented, events,
              live, atEvent, got, raised, op, was>>

-----------------------------------------------------------------------------
(* Bounds *)

\* entries appended over a whole behaviour, and parseFormData calls in it
MaxEntries == 3
MaxCalls == 2
\* submit events in a behaviour
MaxEvents == 2

-----------------------------------------------------------------------------
(* Strings *)

Char(s, i) == SubSeq(s, i, i)

Digits == {"0", "1", "2", "3", "4", "5", "6", "7", "8", "9"}

Letters ==
  {"a", "b", "c", "d", "e", "f", "g", "h", "i", "j", "k", "l", "m",
   "n", "o", "p", "q", "r", "s", "t", "u", "v", "w", "x", "y", "z"}

\* \w of a JavaScript regular expression (the model's paths are lower case)
IsWordChar(c) == c \in Letters \cup Digits \cup {"_"}

\* \d
IsDigit(c) == c \in Digits

\* \w* and \d* over the whole of s
AllWordChars(s) == \A i \in 1..Len(s) : IsWordChar(Char(s, i))
AllDigits(s) == \A i \in 1..Len(s) : IsDigit(Char(s, i))

\* path.split('.'): the pieces between the dots, empty pieces kept
RECURSIVE SplitFrom(_, _, _)
SplitFrom(s, i, cur) ==
  IF i > Len(s) THEN <<cur>>
  ELSE IF Char(s, i) = "." THEN <<cur>> \o SplitFrom(s, i + 1, "")
  ELSE SplitFrom(s, i + 1, cur \o Char(s, i))

Split(path) == SplitFrom(path, 1, "")

\* ARRAY_KEY_REGEX = /^(\w+)\[(\d+)\]$/ : \w excludes "[", so the bracket the
\* pattern needs is the first one of the key
FirstBracket(key) ==
  LET at == {i \in 1..Len(key) : Char(key, i) = "["}
  IN IF at = {} THEN 0 ELSE CHOOSE i \in at : \A j \in at : i <= j

\* ARRAY_KEY_REGEX without its closing `$`: /^(\w+)\[(\d+)\]/ matches a key
\* that goes on after the first bracketed number
ARRAY_KEY_REGEX_Unanchored(key) ==
  LET n == Len(key)
      j == FirstBracket(key)
      ends == {m \in (j + 2)..n :
                 /\ Char(key, m) = "]"
                 /\ AllDigits(SubSeq(key, j + 1, m - 1))}
  IN IF /\ j >= 2
        /\ AllWordChars(SubSeq(key, 1, j - 1))
        /\ ends # {}
     THEN LET m == CHOOSE e \in ends : TRUE
          IN [ok |-> TRUE, arrayKey |-> SubSeq(key, 1, j - 1),
              indexStr |-> SubSeq(key, j + 1, m - 1)]
     ELSE [ok |-> FALSE, arrayKey |-> "", indexStr |-> ""]

ARRAY_KEY_REGEX(key) ==
  LET n == Len(key)
      j == FirstBracket(key)
  IN IF /\ j >= 2
        /\ n >= j + 2
        /\ Char(key, n) = "]"
        /\ AllWordChars(SubSeq(key, 1, j - 1))
        /\ AllDigits(SubSeq(key, j + 1, n - 1))
     THEN [ok |-> TRUE, arrayKey |-> SubSeq(key, 1, j - 1),
           indexStr |-> SubSeq(key, j + 1, n - 1)]
     ELSE [ok |-> FALSE, arrayKey |-> "", indexStr |-> ""]

DigitVal(c) == CHOOSE d \in 0..9 : Char("0123456789", d + 1) = c

\* parseInt(indexStr, 10) of a string of digits
RECURSIVE parseInt(_)
parseInt(s) ==
  IF Len(s) = 0 THEN 0
  ELSE 10 * parseInt(SubSeq(s, 1, Len(s) - 1)) + DigitVal(Char(s, Len(s)))

\* String(n) of a non-negative integer: the property key of array[index]
RECURSIVE NumberToString(_)
NumberToString(n) ==
  IF n < 10 THEN Char("0123456789", n + 1)
  ELSE NumberToString(n \div 10) \o Char("0123456789", (n % 10) + 1)

\* An array index in the sense of the language: a canonical numeric string
\* below 2^32 - 1. Object.entries lists such keys first, in ascending order.
RECURSIVE LexLeq(_, _)
LexLeq(s, t) ==
  IF Len(s) = 0 THEN TRUE
  ELSE IF DigitVal(Char(s, 1)) # DigitVal(Char(t, 1))
       THEN DigitVal(Char(s, 1)) < DigitVal(Char(t, 1))
       ELSE LexLeq(Tail(s), Tail(t))

\* numeric order of two canonical numeric strings
NumLeq(s, t) == Len(s) < Len(t) \/ (Len(s) = Len(t) /\ LexLeq(s, t))

IsArrayIndex(s) ==
  /\ Len(s) >= 1
  /\ AllDigits(s)
  /\ (s = "0" \/ Char(s, 1) # "0")
  /\ NumLeq(s, "4294967294")

-----------------------------------------------------------------------------
(* Values of the JavaScript heap *)

Undefined == [k |-> "undefined"]
Null == [k |-> "null"]
Fn == [k |-> "fn"]
Str(v) == [k |-> "str", v |-> v]

\* the prototype link of an object: Object.prototype, Array.prototype, null,
\* or an object of its own (after an assignment to __proto__)
ObjectProto == [k |-> "OP"]
ArrayProto == [k |-> "AP"]

\* {} and []
EmptyObject == [k |-> "obj", f |-> <<>>, p |-> ObjectProto]
EmptyArray == [k |-> "arr", f |-> <<>>, p |-> ArrayProto]

IsObj(x) == x.k \in {"obj", "arr"}

\* The realm's Object.prototype and Array.prototype before any call. Of their
\* built-in methods the ones a path of the model can name are listed.
PristineGlobals ==
  [op |-> [k |-> "obj", f |-> ("constructor" :> Fn), p |-> Null],
   ap |-> [k |-> "arr", f |-> ("constructor" :> Fn), p |-> ObjectProto]]

\* A place in the heap: a root ("res", "op" or "ap") and the property names
\* leading from it; the step "__proto__" follows the prototype link.
Loc(root, path) == [root |-> root, path |-> path]
OpLoc == Loc("op", <<>>)
ApLoc == Loc("ap", <<>>)

RECURSIVE Follow(_, _)
Follow(node, path) ==
  IF path = <<>> THEN node
  ELSE IF Head(path) = "__proto__" THEN Follow(node.p, Tail(path))
  ELSE Follow(node.f[Head(path)], Tail(path))

NodeAt(h, loc) == Follow(h[loc.root], loc.path)

RECURSIVE Replace(_, _, _)
Replace(node, path, new) ==
  IF path = <<>> THEN new
  ELSE IF Head(path) = "__proto__"
       THEN [node EXCEPT !.p = Replace(node.p, Tail(path), new)]
       ELSE [node EXCEPT !.f = (Head(path) :> Replace(node.f[Head(path)], Tail(path), new)) @@ node.f]

ReplaceAt(h, loc, new) == [h EXCEPT ![loc.root] = Replace(h[loc.root], loc.path, new)]

\* What a property read yields: the value's kind and, for an object, its place
Ref(node, loc) ==
  IF IsObj(node) THEN [k |-> node.k, loc |-> loc] ELSE node

\* The object's [[Prototype]], as the __proto__ getter returns it
GetPrototypeOf(h, loc) ==
  LET node == NodeAt(h, loc)
  IN CASE node.p.k = "OP" -> Ref(h.op, OpLoc)
       [] node.p.k = "AP" -> Ref(h.ap, ApLoc)
       [] node.p.k = "null" -> Null
       [] OTHER -> Ref(node.p, Loc(loc.root, Append(loc.path, "__proto__")))

\* object[key] for an ordinary key: the own property, else up the prototype chain
RECURSIVE GetProperty(_, _, _)
GetProperty(h, loc, key) ==
  LET node == NodeAt(h, loc)
  IN IF key \in DOMAIN node.f
     THEN Ref(node.f[key], Loc(loc.root, Append(loc.path, key)))
     ELSE CASE node.p.k = "OP" -> GetProperty(h, OpLoc, key)
            [] node.p.k = "AP" -> GetProperty(h, ApLoc, key)
            [] node.p.k = "null" -> Undefined
            [] OTHER -> GetProperty(h, Loc(loc.root, Append(loc.path, "__proto__")), key)

\* object[key]
Get(h, loc, key) ==
  IF key = "__proto__" THEN GetPrototypeOf(h, loc) ELSE GetProperty(h, loc, key)

\* object[key] = value, value a string or a fresh {} or []. The heap after it
\* and whether it threw. __proto__ is the setter of Object.prototype: it
\* ignores a value that is no object, sets the prototype link otherwise, and
\* throws a TypeError on Object.prototype itself, whose prototype is immutable.
\* Every other key of the model names a writable data property or none, so
\* the assignment makes or overwrites an own property.
Set(h, loc, key, value) ==
  IF key = "__proto__"
  THEN IF ~IsObj(value) THEN [h |-> h, threw |-> FALSE]
       ELSE IF loc = OpLoc THEN [h |-> h, threw |-> TRUE]
       ELSE [h |-> ReplaceAt(h, loc, [NodeAt(h, loc) EXCEPT !.p = value]),
             threw |-> FALSE]
  ELSE LET node == NodeAt(h, loc)
       IN [h |-> ReplaceAt(h, loc, [node EXCEPT !.f = (key :> value) @@ node.f]),
           threw |-> FALSE]

\* !x
Falsy(x) == x.k \in {"undefined", "null"} \/ (x.k = "str" /\ x.v = "")

\* typeof x !== 'object'
TypeofNotObject(x) == x.k \notin {"obj", "arr", "null"}

\* Array.isArray(x)
IsArray(x) == x.k = "arr"


-----------------------------------------------------------------------------
(* parseFormData *)

\* Leaf, were the value converted on the way in: Number(value) for a string
\* of digits
LeafCoerced(value) ==
  IF Len(value) >= 1 /\ AllDigits(value)
  THEN [k |-> "num", n |-> parseInt(value)]
  ELSE Str(value)

\* The value stored by `array[index] = value` and `current[key] = value`
\* (lines 30 and 46): the entry's string as it came
Leaf(value) == Str(value)

\* One turn of the inner loop (lines 12-59). st = [h, cur, threw, cursors, ops]:
\* the heap, the reference held by `current`, whether the call has thrown, the
\* kinds of value `current` has referred to, and per segment handled what was
\* done with it: the branch taken, the property name used on `current`, and
\* whether a new array was stored. A turn after an exception does nothing.
Step(st, key, isLastKey, value) ==
  IF st.threw THEN st
  ELSE
  LET h == st.h
      cur == st.cur.loc
      arrayMatch == ARRAY_KEY_REGEX(key)
  IN
  IF arrayMatch.ok
  THEN
    LET arrayKey == arrayMatch.arrayKey
        index == parseInt(arrayMatch.indexStr)
        fresh == ~IsArray(Get(h, cur, arrayKey))
        s1 == IF fresh THEN Set(h, cur, arrayKey, EmptyArray)
              ELSE [h |-> h, threw |-> FALSE]
        ops == Append(st.ops, [seg |-> key, branch |-> "array",
                               key |-> arrayKey, newArray |-> fresh])
    IN IF s1.threw THEN [st EXCEPT !.threw = TRUE, !.ops = ops]
       ELSE
       LET array == Get(s1.h, cur, arrayKey)
           ik == NumberToString(index)
       IN IF isLastKey
          THEN [st EXCEPT !.h = Set(s1.h, array.loc, ik, Leaf(value)).h, !.ops = ops]
          ELSE
          LET el == Get(s1.h, array.loc, ik)
              s2 == IF Falsy(el) \/ TypeofNotObject(el)
                    THEN Set(s1.h, array.loc, ik, EmptyObject)
                    ELSE [h |-> s1.h, threw |-> FALSE]
              next == Get(s2.h, array.loc, ik)
          IN [h |-> s2.h, cur |-> next, threw |-> FALSE,
              cursors |-> Append(st.cursors, next.k), ops |-> ops]
  ELSE
    LET ops == Append(st.ops, [seg |-> key, branch |-> "plain",
                               key |-> key, newArray |-> FALSE])
    IN
    IF isLastKey
    THEN LET s1 == Set(h, cur, key, Leaf(value))
         IN [st EXCEPT !.h = s1.h, !.threw = s1.threw, !.ops = ops]
    ELSE
    LET g == Get(h, cur, key)
        s1 == IF Falsy(g) \/ TypeofNotObject(g) \/ IsArray(g)
              THEN Set(h, cur, key, EmptyObject)
              ELSE [h |-> h, threw |-> FALSE]
    IN IF s1.threw THEN [st EXCEPT !.threw = TRUE, !.ops = ops]
       ELSE LET next == Get(s1.h, cur, key)
            IN [h |-> s1.h, cur |-> next, threw |-> FALSE,
                cursors |-> Append(st.cursors, next.k), ops |-> ops]

\* The inner loop over keys[i..] (line 11)
RECURSIVE Walk(_, _, _, _)
Walk(st, keys, i, value) ==
  IF i > Len(keys) THEN st
  ELSE Walk(Step(st, keys[i], i = Len(keys), value), keys, i + 1, value)

\* One turn of the outer loop (lines 8-60): `current = result`, then the walk
ProcessEntry(st, entry) ==
  IF st.threw THEN st
  ELSE Walk([st EXCEPT !.cur = Ref(st.h.res, Loc("res", <<>>)),
                       !.cursors = Append(st.cursors, "obj")],
            Split(entry[1]), 1, entry[2])

\* Object.fromEntries(formData.entries()) (line 4), as the list of the
\* object's own properties in creation order: a name that comes again keeps
\* the place of its first entry and takes the value of the later one.
RECURSIVE FromEntries(_)
FromEntries(entries) ==
  IF entries = <<>> THEN <<>>
  ELSE LET n == Len(entries)
           data == FromEntries(SubSeq(entries, 1, n - 1))
           e == entries[n]
           at == {i \in 1..Len(data) : data[i][1] = e[1]}
       IN IF at = {} THEN Append(data, e)
          ELSE [i \in 1..Len(data) |-> IF i \in at THEN e ELSE data[i]]

\* the array-index names of `names`, ascending
RECURSIVE Ascending(_)
Ascending(names) ==
  IF names = {} THEN <<>>
  ELSE LET least == CHOOSE s \in names : \A t \in names : NumLeq(s, t)
       IN <<least>> \o Ascending(names \ {least})

\* Object.entries(data) (line 7): the properties whose name is an array index
\* first, in ascending numeric order, then the others in creation order
ObjectEntries(data) ==
  LET value(name) == data[CHOOSE i \in 1..Len(data) : data[i][1] = name][2]
      indexNames == {data[i][1] : i \in {j \in 1..Len(data) : IsArrayIndex(data[j][1])}}
      sorted == Ascending(indexNames)
  IN [i \in 1..Len(sorted) |-> <<sorted[i], value(sorted[i])>>]
     \o SelectSeq(data, LAMBDA e : ~IsArrayIndex(e[1]))

\* The outer loop over entries[i..] (line 7)
RECURSIVE ProcessAll(_, _, _)
ProcessAll(st, entries, i) ==
  IF i > Len(entries) THEN st
  ELSE ProcessAll(ProcessEntry(st, entries[i]), entries, i + 1)

\* `const result = {}` (line 5) in a realm whose globals are g: the state the
\* outer loop starts in
Begin(g) ==
  [h |-> [res |-> EmptyObject, op |-> g.op, ap |-> g.ap],
   cur |-> Undefined, threw |-> FALSE, cursors |-> <<>>, ops |-> <<>>]

\* `return result` (line 63), or the exception leaving the function: whether
\* the call threw, the object it returned, the globals it leaves, the kinds
\* `current` had and what was done with each segment
Return(st) ==
  [threw |-> st.threw,
   result |-> IF st.threw THEN Undefined ELSE st.h.res,
   globals |-> [op |-> st.h.op, ap |-> st.h.ap],
   cursors |-> st.cursors,
   ops |-> st.ops]

\* parseFormData(formData) in a realm whose globals are g
parseFormData(fd, g) ==
  Return(ProcessAll(Begin(g), ObjectEntries(FromEntries(fd)), 1))

\* The result as a data structure: the own properties, all the way down (what
\* Object.entries, JSON.stringify or a deep comparison see). A mapping is a
\* function of its keys, a sequence a function of its indices (holes are
\* outside its domain).
RECURSIVE Own(_)
Own(node) ==
  IF node.k = "obj"
  THEN [k |-> "obj", f |-> [key \in DOMAIN node.f |-> Own(node.f[key])]]
  ELSE IF node.k = "arr"
       THEN LET keys == {key \in DOMAIN node.f : IsArrayIndex(key)}
            IN [k |-> "arr",
                e |-> [i \in {parseInt(key) : key \in keys} |->
                         Own(node.f[NumberToString(i)])]]
       ELSE node

-----------------------------------------------------------------------------
(* parseFormData called any number of times in one realm *)

\* The paths the callers choose from: plain, dotted, bracketed, combined, a
\* bracket that is no index, names that are array indices, and names that
\* reach Object.prototype
PlainPaths ==
  {"a", "a.b", "a.c", "a[0]", "a[2]", "a[0].b", "a[x]", "0", "0.b"}

Paths ==
  PlainPaths \cup {"__proto__.a.b", "__proto__.a[0]", "__proto__.__proto__.a"}

InitParse ==
  /\ formData = <<>>
  /\ globals = PristineGlobals
  /\ pc = "idle"
  /\ lastArg = <<>>
  /\ before = PristineGlobals
  /\ result = Undefined
  /\ trace = <<>>
  /\ calls = 0
  /\ used = 0

\* no form anywhere: the hook is not in use
InitHookIdle ==
  /\ ref = FALSE
  /\ fields = <<>>
  /\ initialData = Undefined
  /\ submits = 0
  /\ submitted = Undefined
  /\ prevented = 0
  /\ events = 0
  /\ live = 0
  /\ atEvent = Undefined
  /\ got = Undefined
  /\ raised = FALSE
  /\ op = Undefined
  /\ was = Undefined

Init == InitParse /\ InitHookIdle

\* formData.append(path, value) by the caller preparing the next call; the
\* caller has dropped what the call before returned. parseFormData never looks
\* into a value, so the entries carry values that tell them apart: the n-th
\* entry of a behaviour has the value "n".
AppendEntry(path) ==
  /\ calls < MaxCalls
  /\ used < MaxEntries
  /\ formData' = Append(formData, <<path, NumberToString(used + 1)>>)
  /\ used' = used + 1
  /\ pc' = "idle"
  /\ lastArg' = <<>>
  /\ before' = globals
  /\ result' = Undefined
  /\ trace' = <<>>
  /\ UNCHANGED <<globals, calls, hookVars>>

\* parseFormData(formData)
Call ==
  /\ calls < MaxCalls
  /\ \E r \in {parseFormData(formData, globals)} :
        /\ pc' = IF r.threw THEN "threw" ELSE "returned"
        /\ result' = r.result
        /\ globals' = r.globals
        /\ trace' = r.ops
  /\ lastArg' = formData
  /\ before' = globals
  /\ formData' = <<>>
  /\ calls' = calls + 1
  /\ UNCHANGED <<used, hookVars>>

Next ==
  \/ \E path \in Paths : AppendEntry(path)
  \/ Call

Spec == Init /\ [][Next]_vars

\* The same callers, with names that reach no prototype
NextPlain ==
  \/ \E path \in PlainPaths : AppendEntry(path)
  \/ Call

SpecPlain == Init /\ [][NextPlain]_vars

\* Callers whose names hold brackets that are no index, and names that reach
\* Object.prototype
WidePaths ==
  {"a", "a[0]", "a[x]", "a[0][1]", "a[-1]", "[0]", "a[]", "a[x].b",
   "a.b[0]x", "a[01]", "__proto__", "__proto__.a[x].b"}

NextWide ==
  \/ \E path \in WidePaths : AppendEntry(path)
  \/ Call

SpecWide == Init /\ [][NextWide]_vars

\* Callers whose names nest indices and keys, use digits as names, and reach
\* Object.prototype with them
CursorPaths ==
  {"a", "a.b", "a[0]", "a[1]", "a[0].b", "a[0].0[1]", "0[0]", "0[0].b",
   "__proto__.0[0]", "__proto__.a[0]"}

NextCursor ==
  \/ \E path \in CursorPaths : AppendEntry(path)
  \/ Call

SpecCursor == Init /\ [][NextCursor]_vars

-----------------------------------------------------------------------------
(* useForm *)

\* A text control of the form: its name, its value now and its default value
Control(name, def) == [name |-> name, value |-> def, def |-> def]

\* A data object handed to initialize or reset, or kept as initialData: its
\* own properties as Object.entries lists them
Data(entries) == [k |-> "data", e |-> entries]

\* The forms the hook is used on: two plain fields, one of them with a
\* default value; two controls of one name; dotted and bracketed names; and a
\* name that walks up the prototype chain
Forms ==
  {<<Control("a", ""), Control("b", "d")>>,
   <<Control("a", "d"), Control("a", "")>>,
   <<Control("a.b", "d"), Control("a[0]", "")>>,
   <<Control("a", "d"), Control("__proto__.__proto__.a", "")>>}

InitialDatas == {Undefined, Data(<<<<"a", "i">>>>), Data(<<<<"a", "">>, <<"b", "j">>>>)}

DataArgs == {Undefined, Data(<<>>), Data(<<<<"a", "x">>, <<"b", "">>>>)}

\* new FormData(ref.current) (lines 111 and 135): the controls' names and
\* values in tree order
FormDataOf(fs) == [i \in 1..Len(fs) |-> <<fs[i].name, fs[i].value>>]

\* ref.current.reset() (line 121): every control back to its default value
FormReset(fs) == [i \in 1..Len(fs) |-> [fs[i] EXCEPT !.value = fs[i].def]]

\* setValue without its `if (!ref.current) return` (line 143): the controls
\* are written whether or not the form is attached
setValueUnguarded(fs, attached, name, value) ==
  LET named == {i \in 1..Len(fs) : fs[i].name = name}
  IN IF Cardinality(named) = 1
     THEN [i \in 1..Len(fs) |-> IF i \in named THEN [fs[i] EXCEPT !.value = value]
                                ELSE fs[i]]
     ELSE fs

\* setValue (lines 142-150) on the controls fs. elements.namedItem(name) is
\* the control of that name, null when there is none, and a RadioNodeList
\* when there are several: the list has a `value`, and assigning it changes
\* no text control.
setValue(fs, attached, name, value) ==
  IF ~attached THEN fs
  ELSE LET named == {i \in 1..Len(fs) : fs[i].name = name}
       IN IF Cardinality(named) = 1
          THEN [i \in 1..Len(fs) |-> IF i \in named THEN [fs[i] EXCEPT !.value = value]
                                     ELSE fs[i]]
          ELSE fs

\* the forEach of initialize (lines 157-161) over entries[i..]
RECURSIVE SetEach(_, _, _, _)
SetEach(fs, attached, entries, i) ==
  IF i > Len(entries) THEN fs
  ELSE SetEach(IF entries[i][2] # "" THEN setValue(fs, attached, entries[i][1], entries[i][2])
               ELSE fs,
               attached, entries, i + 1)

\* initialize (lines 152-162)
initialize(fs, attached, data, initial) ==
  LET dataToUse == IF data # Undefined THEN data ELSE initial
  IN IF ~attached \/ dataToUse = Undefined THEN fs
     ELSE SetEach(fs, attached, dataToUse.e, 1)

\* reset (lines 118-130)
reset(fs, attached, data, shouldUseInitialData, initial) ==
  IF ~attached THEN fs
  ELSE LET cleared == FormReset(fs)
       IN IF data # Undefined THEN initialize(cleared, attached, data, initial)
          ELSE IF initial # Undefined /\ shouldUseInitialData
               THEN initialize(cleared, attached, initial, initial)
               ELSE cleared

InitHook ==
  /\ ref = FALSE
  /\ fields \in Forms
  /\ initialData \in InitialDatas
  /\ submits = 0
  /\ submitted = Undefined
  /\ prevented = 0
  /\ events = 0
  /\ live = 0
  /\ atEvent = Undefined
  /\ got = Undefined
  /\ raised = FALSE
  /\ op = Undefined
  /\ was = Undefined

\* a hook operation is called: its name and arguments, on the form as it is
Called(name, data, flag) ==
  /\ op' = [k |-> name, data |-> data, flag |-> flag]
  /\ was' = [ref |-> ref, fields |-> fields]

\* something else than a hook operation happens to the form
NotCalled ==
  /\ op' = Undefined
  /\ was' = Undefined

\* what the caller of the last hook operation was handed: dropped at the next
Forget ==
  /\ submitted' = Undefined
  /\ atEvent' = Undefined
  /\ got' = Undefined
  /\ raised' = FALSE

\* React mounts the form and sets ref.current
Mount ==
  /\ ~ref
  /\ ref' = TRUE
  /\ Forget
  /\ NotCalled
  /\ UNCHANGED <<parseVars, fields, initialData, submits, prevented, events, live>>

\* React unmounts the form and clears ref.current; a form mounted again
\* shows its default values
Unmount ==
  /\ ref
  /\ ref' = FALSE
  /\ fields' = FormReset(fields)
  /\ Forget
  /\ NotCalled
  /\ UNCHANGED <<parseVars, initialData, submits, prevented, events, live>>

\* the user types into a control of the mounted form
UserInput(i, value) ==
  /\ ref
  /\ i \in 1..Len(fields)
  /\ fields' = [fields EXCEPT ![i].value = value]
  /\ Forget
  /\ NotCalled
  /\ UNCHANGED <<parseVars, ref, initialData, submits, prevented, events, live>>

SetValue(name, value) ==
  /\ fields' = setValue(fields, ref, name, value)
  /\ Forget
  /\ Called("setValue", [name |-> name, value |-> value], FALSE)
  /\ UNCHANGED <<parseVars, ref, initialData, submits, prevented, events, live>>

Initialize(data) ==
  /\ fields' = initialize(fields, ref, data, initialData)
  /\ Forget
  /\ Called("initialize", data, FALSE)
  /\ UNCHANGED <<parseVars, ref, initialData, submits, prevented, events, live>>

Reset(data, shouldUseInitialData) ==
  /\ fields' = reset(fields, ref, data, shouldUseInitialData, initialData)
  /\ Forget
  /\ Called("reset", data, shouldUseInitialData)
  /\ UNCHANGED <<parseVars, ref, initialData, submits, prevented, events, live>>

\* getFormData (lines 132-140)
GetFormData ==
  /\ IF ~ref
     THEN /\ got' = Null
          /\ raised' = FALSE
          /\ UNCHANGED globals
     ELSE \E r \in {parseFormData(FormDataOf(fields), globals)} :
             /\ got' = r.result
             /\ raised' = r.threw
             /\ globals' = r.globals
  /\ submitted' = Undefined
  /\ atEvent' = Undefined
  /\ Called("getFormData", Undefined, FALSE)
  /\ UNCHANGED <<formData, pc, lastArg, before, result, trace, calls, used,
                 ref, fields, initialData, submits, prevented, events, live>>

\* onSubmit (lines 106-116) on a submit event
OnSubmit ==
  /\ events < MaxEvents
  /\ events' = events + 1
  /\ prevented' = prevented + 1
  /\ got' = Undefined
  /\ Called("onSubmit", Undefined, FALSE)
  /\ IF ~ref
     THEN /\ raised' = FALSE
          /\ submitted' = Undefined
          /\ atEvent' = Undefined
          /\ UNCHANGED <<globals, submits, live>>
     ELSE \E r \in {parseFormData(FormDataOf(fields), globals)} :
             /\ live' = live + 1
             /\ atEvent' = [g |-> globals]
             /\ raised' = r.threw
             /\ globals' = r.globals
             /\ submits' = IF r.threw THEN submits ELSE submits + 1
             /\ submitted' = r.result
  /\ UNCHANGED <<formData, pc, lastArg, before, result, trace, calls, used,
                 ref, fields, initialData>>

NextHook ==
  \/ Mount
  \/ Unmount
  \/ \E i \in 1..2, value \in {"x"} : UserInput(i, value)
  \/ \E name \in {"a", "b", "zz"}, value \in {"", "y"} : SetValue(name, value)
  \/ \E data \in DataArgs : Initialize(data)
  \/ \E data \in DataArgs, shouldUseInitialData \in BOOLEAN : Reset(data, shouldUseInitialData)
  \/ GetFormData
  \/ OnSubmit

\* a form on the page, the hook called on it, nothing parsed yet
InitForm == InitParse /\ InitHook

SpecHook == InitForm /\ [][NextHook]_vars

-----------------------------------------------------------------------------
(* The assembler of spec 4.1, on the result as a data structure *)

EmptyMapping == [k |-> "obj", f |-> <<>>]
EmptySequence == [k |-> "arr", e |-> <<>>]
Absent == [k |-> "absent"]

\* 4.1 step 2: a segment `name[index]`, an identifier followed by a
\* non-negative integer in brackets, is an array-access step; any other
\* segment is a plain key-access step
IsIndexSegment(seg) ==
  \E j \in 2..(Len(seg) - 2) :
     /\ \A i \in 1..(j - 1) : IsWordChar(Char(seg, i))
     /\ Char(seg, j) = "["
     /\ \A i \in (j + 1)..(Len(seg) - 1) : IsDigit(Char(seg, i))
     /\ Char(seg, Len(seg)) = "]"

PathStep(seg) ==
  IF IsIndexSegment(seg)
  THEN LET j == CHOOSE i \in 1..Len(seg) : Char(seg, i) = "[" /\ \A m \in 1..(i - 1) : Char(seg, m) # "["
       IN [kind |-> "Index", name |-> SubSeq(seg, 1, j - 1),
           index |-> parseInt(SubSeq(seg, j + 1, Len(seg) - 1))]
  ELSE [kind |-> "Key", name |-> seg, index |-> 0]

\* 4.1 steps 1 and 2
PathSteps(path) ==
  LET segs == Split(path) IN [i \in 1..Len(segs) |-> PathStep(segs[i])]

\* 4.1 step 3: the walk of one entry from the mapping `node`
RECURSIVE Place(_, _, _)
Place(node, steps, value) ==
  LET step == Head(steps)
      last == Len(steps) = 1
      name == step.name
  IN IF step.kind = "Key"
     THEN IF last
          THEN [node EXCEPT !.f = (name :> Str(value)) @@ node.f]
          ELSE LET child == IF name \in DOMAIN node.f /\ node.f[name].k = "obj"
                            THEN node.f[name] ELSE EmptyMapping
               IN [node EXCEPT !.f = (name :> Place(child, Tail(steps), value)) @@ node.f]
     ELSE LET seq == IF name \in DOMAIN node.f /\ node.f[name].k = "arr"
                     THEN node.f[name] ELSE EmptySequence
              i == step.index
              child == IF i \in DOMAIN seq.e /\ seq.e[i].k = "obj"
                       THEN seq.e[i] ELSE EmptyMapping
              el == IF last THEN Str(value) ELSE Place(child, Tail(steps), value)
          IN [node EXCEPT !.f = (name :> [seq EXCEPT !.e = (i :> el) @@ seq.e]) @@ node.f]

\* assemble(entries): from the empty mapping, the entries in input order
RECURSIVE Assemble(_)
Assemble(entries) ==
  IF entries = <<>> THEN EmptyMapping
  ELSE Place(Assemble(SubSeq(entries, 1, Len(entries) - 1)),
             PathSteps(entries[Len(entries)][1]), entries[Len(entries)][2])

\* what the structure `node` holds at the end of `steps` (Absent when nothing)
RECURSIVE ValueAt(_, _)
ValueAt(node, steps) ==
  IF steps = <<>> THEN node
  ELSE IF node.k # "obj" \/ Head(steps).name \notin DOMAIN node.f THEN Absent
  ELSE LET step == Head(steps)
           at == node.f[step.name]
       IN IF step.kind = "Key" THEN ValueAt(at, Tail(steps))
          ELSE IF at.k = "arr" /\ step.index \in DOMAIN at.e
               THEN ValueAt(at.e[step.index], Tail(steps))
               ELSE Absent

\* the values of `node` that are no mapping and no sequence
RECURSIVE Leaves(_)
Leaves(node) ==
  IF node.k = "obj" THEN UNION {Leaves(node.f[key]) : key \in DOMAIN node.f}
  ELSE IF node.k = "arr" THEN UNION {Leaves(node.e[i]) : i \in DOMAIN node.e}
  ELSE {node}

\* the sequences of `node`
RECURSIVE SequencesOf(_)
SequencesOf(node) ==
  IF node.k = "obj" THEN UNION {SequencesOf(node.f[key]) : key \in DOMAIN node.f}
  ELSE IF node.k = "arr" THEN {node} \cup UNION {SequencesOf(node.e[i]) : i \in DOMAIN node.e}
  ELSE {}

Returned == pc = "returned"
Ended == pc \in {"returned", "threw"}
PathsOf(entries) == {entries[i][1] : i \in 1..Len(entries)}
\* the value of the last entry of `entries` with path `path`
LastValue(entries, path) ==
  entries[CHOOSE i \in 1..Len(entries) :
            /\ entries[i][1] = path
            /\ \A j \in (i + 1)..Len(entries) : entries[j][1] # path][2]


-----------------------------------------------------------------------------
(* C1 *)

\* C1: for every ordered sequence of (path, value) entries, duplicates
\* allowed, parseFormData returns what the assembler of spec 4.1 yields when
\* it applies the entries one after the other in input order.
C1_RefinesAssemble ==
  Ended => (Returned /\ Own(result) = Assemble(lastArg))

-----------------------------------------------------------------------------
(* C2 *)

\* the entries of `entries` whose first step names the key a, in order
Naming(entries, a) == SelectSeq(entries, LAMBDA e : PathSteps(e[1])[1].name = a)

\* the node type an entry demands at the key its first step names
Demand(e) ==
  LET steps == PathSteps(e[1])
  IN IF steps[1].kind = "Index" THEN "arr"
     ELSE IF Len(steps) = 1 THEN "str" ELSE "obj"

\* the place in `es` of the last entry that demands another type than the
\* entry before it (1 when all demand the same)
LastTurn(es) ==
  LET turns == {i \in 2..Len(es) : Demand(es[i]) # Demand(es[i - 1])}
  IN IF turns = {} THEN 1 ELSE CHOOSE i \in turns : \A j \in turns : j <= i

\* C2: whenever an entry demands at a key a another node type than the
\* earlier entries left there, the most recent demand wins and the previous
\* value is discarded: a holds what the entries from that one on put there,
\* and nothing of what came before ((a.b, v1), (a, v2) leaves a = v2;
\* (a, v1), (a.b, v2) leaves a = {b: v2}; a[n] after a or a.b leaves a fresh
\* sequence; a.b after a[n] a fresh mapping).
C2_MostRecentDemandWins ==
  Returned =>
    \A a \in {PathSteps(p)[1].name : p \in PathsOf(lastArg)} :
      LET es == Naming(lastArg, a)
          t == LastTurn(es)
      IN t > 1 =>
           /\ a \in DOMAIN Own(result).f
           /\ Own(result).f[a] = Assemble(SubSeq(es, t, Len(es))).f[a]

-----------------------------------------------------------------------------
(* C3 *)

\* C3: parseFormData holds no state across calls and has no side effect:
\* whatever calls came before, a call on the entries E returns what a call on
\* E returns in a fresh realm, and it leaves the realm as it found it.
C3_NoStateNoSideEffect ==
  /\ Returned => Own(result) = Own(parseFormData(lastArg, PristineGlobals).result)
  /\ Ended => globals = before

-----------------------------------------------------------------------------
(* C4 *)

\* C4: when the same full path occurs more than once, the value at that path
\* in the result is the value of its last occurrence (and no array of the
\* duplicates' values). Stated where the last occurrence is the last entry of
\* the sequence, so that no later entry acts on the path.
C4_LastOccurrenceWins ==
  Returned =>
    LET n == Len(lastArg)
    IN (n >= 2 /\ \E i \in 1..(n - 1) : lastArg[i][1] = lastArg[n][1]) =>
         ValueAt(Own(result), PathSteps(lastArg[n][1])) = Str(lastArg[n][2])


-----------------------------------------------------------------------------
(* C5 *)

\* the segments of a path but the last, and the last
Prefix(path) == LET segs == Split(path) IN SubSeq(segs, 1, Len(segs) - 1)
LastSegment(path) == LET segs == Split(path) IN segs[Len(segs)]

\* the paths of `entries` are several, share one non-empty prefix and end in
\* plain keys
SharedPrefixFamily(entries) ==
  /\ Cardinality(PathsOf(entries)) >= 2
  /\ \A p, q \in PathsOf(entries) : Prefix(p) = Prefix(q) /\ Prefix(p) # <<>>
  /\ \A p \in PathsOf(entries) : ~IsIndexSegment(LastSegment(p))

\* C5: entries whose paths share a non-terminal prefix and differ after it
\* merge: every value is at its nested key path, all in the one mapping the
\* shared prefix reaches.
C5_SharedPrefixMerges ==
  (Returned /\ SharedPrefixFamily(lastArg)) =>
    \A p \in PathsOf(lastArg) :
      ValueAt(Own(result), PathSteps(p)) = Str(LastValue(lastArg, p))

-----------------------------------------------------------------------------
(* C6 *)

\* every entry is name[i] = v, for one name
IndexEntriesOf(entries, name) ==
  /\ entries # <<>>
  /\ \A p \in PathsOf(entries) :
       /\ Len(Split(p)) = 1
       /\ IsIndexSegment(p)
       /\ PathStep(p).name = name

\* C6: for entries name[i] = v over any set of indices, the result holds
\* under name a sequence whose element i is v for each index used and whose
\* every other slot is absent.
C6_SparseSequence ==
  \A name \in {"a"} :
    (Returned /\ IndexEntriesOf(lastArg, name)) =>
      LET indices == {PathStep(p).index : p \in PathsOf(lastArg)}
          pathOf(i) == CHOOSE p \in PathsOf(lastArg) : PathStep(p).index = i
      IN /\ name \in DOMAIN Own(result).f
         /\ Own(result).f[name] =
              [k |-> "arr", e |-> [i \in indices |-> Str(LastValue(lastArg, pathOf(i)))]]

-----------------------------------------------------------------------------
(* C8 *)

\* C8: parseFormData is total: whatever the paths contain, it returns a
\* mapping and raises no error.
C8_NeverThrows == pc # "threw"

-----------------------------------------------------------------------------
(* C9 *)

-----------------------------------------------------------------------------
(* C7 *)

HasBracket(seg) == \E i \in 1..Len(seg) : Char(seg, i) \in {"[", "]"}

SegmentsOf(entries) ==
  UNION {{Split(p)[i] : i \in 1..Len(Split(p))} : p \in PathsOf(entries)}

\* C7: a segment that is not exactly an identifier followed by one bracketed
\* non-negative integer is never treated as an array operation: the walk takes
\* the plain-key branch with the whole segment text as the property name and
\* stores no sequence for it; a call none of whose segments has the pattern
\* returns a result without any sequence; and a lone entry whose path is one
\* such bracketed segment yields exactly {segment: value}.
C7_PlainKeyFallback ==
  /\ \A i \in 1..Len(trace) :
       ~IsIndexSegment(trace[i].seg) =>
         /\ trace[i].branch = "plain"
         /\ trace[i].key = trace[i].seg
         /\ ~trace[i].newArray
  /\ (Returned /\ \A seg \in SegmentsOf(lastArg) : ~IsIndexSegment(seg)) =>
       SequencesOf(Own(result)) = {}
  /\ (/\ Returned
      /\ Len(lastArg) = 1
      /\ Len(Split(lastArg[1][1])) = 1
      /\ HasBracket(lastArg[1][1])
      /\ ~IsIndexSegment(lastArg[1][1])) =>
       Own(result) = [k |-> "obj", f |-> (lastArg[1][1] :> Str(lastArg[1][2]))]

\* a call has handled a segment with brackets that is no index segment, and
\* one of two index brackets
C7_Witness ==
  /\ Returned
  /\ \E i \in 1..Len(trace) : trace[i].seg = "a[0][1]"
  /\ \E i \in 1..Len(trace) : trace[i].seg = "a[x]" /\ trace[i].branch = "plain"


-----------------------------------------------------------------------------
(* C10 *)

\* C10: on every submit event of a form whose ref is attached, onSubmit
\* prevents the default submission and calls the submit callback exactly
\* once, with parseFormData of the form's current field values.
C10_SubmitOncePerEvent ==
  /\ prevented = events
  /\ submits = live
  /\ atEvent # Undefined =>
       /\ submitted # Undefined
       /\ Own(submitted) = Own(parseFormData(FormDataOf(fields), atEvent.g).result)

-----------------------------------------------------------------------------
(* C11 *)

\* every control named by a key of `data` holds that key's value
HoldsData(fs, data) ==
  \A i \in 1..Len(data.e) :
    \A j \in 1..Len(fs) :
      fs[j].name = data.e[i][1] => fs[j].value = data.e[i][2]

\* the last operation was reset, called on an attached form
ResetDone == op # Undefined /\ op.k = "reset" /\ was.ref

\* C11: after any setValue and initialize calls on an attached form, reset()
\* with initialData configured leaves every field named by a key of
\* initialData holding that key's initial value, reset(data) leaves every
\* field named by a key of data holding data's value, and
\* reset(undefined, false) leaves the form at its native defaults.
C11_ResetRestoresInitialState ==
  ResetDone =>
    /\ op.data # Undefined => HoldsData(fields, op.data)
    /\ (op.data = Undefined /\ op.flag /\ initialData # Undefined) =>
         HoldsData(fields, initialData)
    /\ (op.data = Undefined /\ ~op.flag) => fields = FormReset(was.fields)

-----------------------------------------------------------------------------
(* C12 *)

\* the last operation was called while ref.current was null
CalledUnattached == op # Undefined /\ ~was.ref

\* C12: while the form ref is not attached every hook operation is a guarded
\* no-op: getFormData returns null, onSubmit does not call the submit
\* callback, reset, setValue and initialize change nothing, and none raises;
\* and getFormData calls the submit callback in no state.
C12_UnattachedNoOp ==
  /\ CalledUnattached =>
       /\ fields = was.fields
       /\ ~ref
       /\ ~raised
       /\ submitted = Undefined
       /\ op.k = "getFormData" => got = Null
  /\ submits <= live
  /\ (op # Undefined /\ op.k = "getFormData") => submitted = Undefined

\* setValue has been called on an unattached form that has one control of
\* the name, holding another value; and a submit event has come to an
\* unattached form
C12_Witness ==
  /\ CalledUnattached
  /\ op.k = "setValue"
  /\ \E j \in 1..Len(fields) :
       /\ fields[j].name = op.data.name
       /\ fields[j].value # op.data.value
       /\ \A i \in 1..Len(fields) : fields[i].name = op.data.name => i = j
  /\ events > live

-----------------------------------------------------------------------------
(* C13 *)

\* the kinds of value `current` referred to during the last call, in order
CursorsOfLastCall == parseFormData(lastArg, before).cursors

\* the sequences of `node` that have a sequence as a direct element
NestedSequences(node) ==
  {seq \in SequencesOf(node) : \E i \in DOMAIN seq.e : seq.e[i].k = "arr"}

\* C13: at every step of processing every entry the cursor `current` refers
\* to a mapping, never to a scalar or a sequence; and so a sequence of the
\* result has only scalars, mappings or holes as direct elements.
C13_CursorIsMapping ==
  Ended =>
    /\ \A i \in 1..Len(CursorsOfLastCall) : CursorsOfLastCall[i] = "obj"
    /\ Returned => NestedSequences(Own(result)) = {}

====
